---------------------------- MODULE Spec2Model ----------------------------
(***************************************************************************)
(* A model of kidb: the KiDatabase wrapper of src/kidb/db.py (filter,      *)
(* values, get_ki and the is_outlier band test) and the parameter decoding *)
(* of src/kidb/app.py (get_from_params and the handlers that use it).      *)
(*                                                                         *)
(* Numbers.  pandas works on IEEE doubles; the model works on exact reals  *)
(* of the form a + c*sqrt(w) with a, c, w rational, plus NaN.  That is     *)
(* closed under every operation the code applies (a mean is rational, a    *)
(* sample standard deviation is the square root of a rational, the band    *)
(* ends are mean -/+ deviation*std) and comparisons on it are decided      *)
(* exactly.  NaN follows IEEE: it propagates through arithmetic and every  *)
(* comparison with it is false.  Rounding is not modelled.                 *)
(***************************************************************************)
EXTENDS Integers, Sequences, FiniteSets, TLC

VARIABLES
    series,      \* SpecOutlier: the group (a pandas Series of ki values)
    classified,  \* SpecOutlier: the classifications computed so far
    data,        \* SpecKi, SpecFilter: the rows of the table (self.data)
    result,      \* SpecKi, SpecFilter: what the last call returned
    frames,      \* Spec: the DataFrame objects, by identity
    tables,      \* Spec: the KiDatabase objects, by identity (-> their .data)
    loaded,      \* Spec: the frame as it was after loading (history)
    ret,         \* Spec: the last call and the object it returned
    args,        \* SpecParams: request.args
    response     \* SpecParams: how the handler ended

vars == <<series, classified, data, result, frames, tables, loaded, ret,
          args, response>>

-----------------------------------------------------------------------------
(* Rationals: <<n, d>> with d > 0, in lowest terms. *)

Abs(x) == IF x < 0 THEN -x ELSE x

RECURSIVE Gcd(_, _)
Gcd(a, b) == IF b = 0 THEN a ELSE Gcd(b, a % b)

Q(n, d) ==
    LET s == IF d < 0 THEN -1 ELSE 1
        g == Gcd(Abs(n), Abs(d))
    IN  <<(s * n) \div g, (s * d) \div g>>

QZero == <<0, 1>>
QAdd(x, y) == Q(x[1] * y[2] + y[1] * x[2], x[2] * y[2])
QNeg(x)    == <<-x[1], x[2]>>
QMul(x, y) == Q(x[1] * y[1], x[2] * y[2])
QDiv(x, y) == Q(x[1] * y[2], x[2] * y[1])
QLe(x, y)  == x[1] * y[2] <= y[1] * x[2]

(* Floats: NaN, or a + c*sqrt(w).  c = 0 iff w = 0, so that a rational has *)
(* one representation.                                                     *)
NaN == [nan |-> TRUE, a |-> QZero, c |-> QZero, w |-> QZero]

Real(a, c, w) ==
    IF c = QZero \/ w = QZero
    THEN [nan |-> FALSE, a |-> a, c |-> QZero, w |-> QZero]
    ELSE [nan |-> FALSE, a |-> a, c |-> c, w |-> w]

Num(n, d) == Real(Q(n, d), QZero, QZero)
Int2F(n)  == Num(n, 1)

(* x + y and x - y, where at most one of the two has an irrational part. *)
FAdd(x, y) ==
    IF x.nan \/ y.nan THEN NaN
    ELSE IF y.c = QZero THEN Real(QAdd(x.a, y.a), x.c, x.w)
    ELSE Real(QAdd(x.a, y.a), y.c, y.w)

FNeg(x) == IF x.nan THEN NaN ELSE Real(QNeg(x.a), QNeg(x.c), x.w)
FSub(x, y) == FAdd(x, FNeg(y))

(* x * y, x rational. *)
FMul(x, y) ==
    IF x.nan \/ y.nan THEN NaN
    ELSE Real(QMul(x.a, y.a), QMul(x.a, y.c), y.w)

(* x / n, x rational, n a positive integer. *)
FDivInt(x, n) == IF x.nan THEN NaN ELSE Real(QDiv(x.a, <<n, 1>>), QZero, QZero)

(* sqrt(x), x rational and >= 0. *)
FSqrt(x) == IF x.nan THEN NaN ELSE Real(QZero, <<1, 1>>, x.a)

(* 0 <= a + c*sqrt(w), decided on the signs and the squares. *)
NonNeg(x) ==
    LET t  == x.c[1]                        \* the sign of c*sqrt(w) (w > 0 or c = 0)
        a2 == QMul(x.a, x.a)
        t2 == QMul(QMul(x.c, x.c), x.w)
    IN  CASE x.a[1] >= 0 /\ t >= 0 -> TRUE
          [] x.a[1] < 0 /\ t <= 0  -> FALSE
          [] x.a[1] >= 0 /\ t < 0  -> QLe(t2, a2)
          [] OTHER                 -> QLe(a2, t2)

(* x <= y as IEEE compares: false as soon as either side is NaN. *)
FLe(x, y) == ~x.nan /\ ~y.nan /\ NonNeg(FSub(y, x))
FLt(x, y) == ~x.nan /\ ~y.nan /\ ~NonNeg(FSub(x, y))

(* None | a value (Python's optional arguments and returns). *)
None == <<>>
Some(x) == <<x>>

-----------------------------------------------------------------------------
(* pandas Series: a sequence of [idx, val], idx the row label. *)

RECURSIVE SelectSeq2(_, _)
SelectSeq2(s, keep) ==
    IF s = <<>> THEN <<>>
    ELSE IF keep[1] THEN <<Head(s)>> \o SelectSeq2(Tail(s), Tail(keep))
    ELSE SelectSeq2(Tail(s), Tail(keep))

NotNa(s) == SelectSeq(s, LAMBDA e : ~e.val.nan)

RECURSIVE Sum(_)
Sum(s) == IF s = <<>> THEN Int2F(0) ELSE FAdd(Head(s).val, Sum(Tail(s)))

(* Series.count(): the values that are not missing. *)
Count(s) == Len(NotNa(s))

(* Series.mean(), skipna: NaN for no value. *)
Mean(s) ==
    LET v == NotNa(s)
    IN  IF Len(v) = 0 THEN NaN ELSE FDivInt(Sum(v), Len(v))

RECURSIVE SumSq(_, _)
SumSq(s, m) ==
    IF s = <<>> THEN Int2F(0)
    ELSE LET d == FSub(Head(s).val, m)
         IN  FAdd(FMul(d, d), SumSq(Tail(s), m))

(* Series.std(), skipna, ddof = 1: NaN for fewer than two values. *)
Std(s) ==
    LET v == NotNa(s)
    IN  IF Len(v) < 2 THEN NaN
        ELSE FSqrt(FDivInt(SumSq(v, Mean(v)), Len(v) - 1))

RECURSIVE Insert(_, _)
Insert(x, s) ==
    IF s = <<>> THEN <<x>>
    ELSE IF FLe(x, Head(s)) THEN <<x>> \o s
    ELSE <<Head(s)>> \o Insert(x, Tail(s))

RECURSIVE SortVals(_)
SortVals(s) == IF s = <<>> THEN <<>> ELSE Insert(Head(s).val, SortVals(Tail(s)))

(* Series.median(), skipna: the middle value, or the mean of the two. *)
Median(s) ==
    LET v == SortVals(NotNa(s))
        n == Len(v)
    IN  IF n = 0 THEN NaN
        ELSE IF n % 2 = 1 THEN v[(n + 1) \div 2]
        ELSE FDivInt(FAdd(v[n \div 2], v[n \div 2 + 1]), 2)

(* Series.between(left, right), inclusive on both ends. *)
between(s, left, right) ==
    [i \in 1..Len(s) |->
        [idx |-> s[i].idx, val |-> FLe(left, s[i].val) /\ FLe(s[i].val, right)]]

(* ~series of booleans. *)
Invert(s) == [i \in 1..Len(s) |-> [idx |-> s[i].idx, val |-> ~s[i].val]]

(* The band test that leaves the deviation factor out. *)
is_outlier_unscaled(deviation, s) ==
    LET mean == Mean(s)
        std  == Std(s)
    IN  Invert(between(s, FSub(mean, std), FAdd(mean, std)))

(* The band test with exclusive ends. *)
is_outlier_exclusive(deviation, s) ==
    LET mean == Mean(s)
        std  == Std(s)
        lo   == FSub(mean, FMul(deviation, std))
        hi   == FAdd(mean, FMul(deviation, std))
    IN  [i \in 1..Len(s) |->
            [idx |-> s[i].idx, val |-> ~(FLt(lo, s[i].val) /\ FLt(s[i].val, hi))]]

(* The band test without the final negation. *)
is_outlier_inside(deviation, s) ==
    LET mean == Mean(s)
        std  == Std(s)
    IN  between(s, FSub(mean, FMul(deviation, std)),
                   FAdd(mean, FMul(deviation, std)))

(* is_outlier(deviation)(series): True where the value is outside *)
(* [mean - deviation*std, mean + deviation*std].                  *)
is_outlier(deviation, s) ==
    LET mean == Mean(s)
        std  == Std(s)
    IN  Invert(between(s, FSub(mean, FMul(deviation, std)),
                          FAdd(mean, FMul(deviation, std))))

-----------------------------------------------------------------------------
(* DataFrames: a sequence of rows [idx, receptor, ligand, ki_op, ki], idx  *)
(* the row's index label.  Of the twelve columns of KiDatabase.structure   *)
(* the model keeps the three string columns get_ki reads and the ki        *)
(* column; the other eight are string columns treated like receptor and    *)
(* ligand by every operation.                                              *)

columns == {"receptor", "ligand", "ki_op", "ki"}

(* A cell that is missing in the CSV file (read_csv gives NaN). *)
Missing == "NaN"

(* KiDatabase.__init__: a RangeIndex from 0, ki_op filled with '=', every *)
(* other column but ki filled with ''.                                     *)
KiDatabase(raw) ==
    [i \in 1..Len(raw) |->
        [idx      |-> i - 1,
         receptor |-> IF raw[i].receptor = Missing THEN "" ELSE raw[i].receptor,
         ligand   |-> IF raw[i].ligand = Missing THEN "" ELSE raw[i].ligand,
         ki_op    |-> IF raw[i].ki_op = Missing THEN "=" ELSE raw[i].ki_op,
         ki       |-> raw[i].ki]]

Scalar(v) == [scalar |-> v]
List(l)   == [list |-> l]

(* filter, lines 82-84: a value that is no list is wrapped in one. *)
Wrap(kwargs) ==
    [k \in DOMAIN kwargs |->
        IF "list" \in DOMAIN kwargs[k] THEN kwargs[k].list ELSE <<kwargs[k].scalar>>]

Range(l) == {l[i] : i \in DOMAIN l}

(* Series.isin(values), the string columns. *)
isin(df, k, v) == [i \in 1..Len(df) |-> df[i][k] \in Range(v)]

(* reduce(operator.and_, (self.data[k].isin(v) for k, v in kwargs.items())) *)
Mask(df, kwargs) ==
    [i \in 1..Len(df) |-> \A k \in DOMAIN kwargs : isin(df, k, kwargs[k])[i]]

(* df.loc[mask], mask a boolean array in row order. *)
loc(df, mask) == SelectSeq2(df, mask)

(* filter that combines the entries with OR. *)
filter_any(df, kwargs) ==
    IF DOMAIN kwargs = {} THEN df
    ELSE LET w == Wrap(kwargs)
         IN  loc(df, [i \in 1..Len(df) |->
                        \E k \in DOMAIN w : isin(df, k, w[k])[i]])

(* filter that tests a list by its first value only. *)
filter_first(df, kwargs) ==
    IF DOMAIN kwargs = {} THEN df
    ELSE loc(df, Mask(df, [k \in DOMAIN kwargs |-> <<Wrap(kwargs)[k][1]>>]))

(* KiDatabase.filter, on the rows: the rows it returns. *)
filter(df, kwargs) ==
    IF DOMAIN kwargs = {} THEN df
    ELSE loc(df, Mask(df, Wrap(kwargs)))

(* The order of the receptor names (Python compares str by code point). *)
StrRank(x) ==
    CASE x = ""    -> 0
      [] x = "A2A" -> 1
      [] x = "A2B" -> 2
      [] x = "D2"  -> 3

RECURSIVE InsertRow(_, _)
InsertRow(r, s) ==
    IF s = <<>> THEN <<r>>
    ELSE IF StrRank(r.receptor) < StrRank(Head(s).receptor) THEN <<r>> \o s
    ELSE <<Head(s)>> \o InsertRow(r, Tail(s))

RECURSIVE SortRows(_)
SortRows(s) ==
    IF s = <<>> THEN <<>>
    ELSE InsertRow(s[Len(s)], SortRows(SubSeq(s, 1, Len(s) - 1)))

(* df.sort_values('receptor'): a new frame, ascending; rows of one         *)
(* receptor keep their order (numpy sorts arrays this short by insertion). *)
sort_values(df) == SortRows(df)

(* df.groupby('receptor')['ki']: the keys in ascending order, each with *)
(* the Series of its rows' ki values.                                    *)
Keys(df) == {df[i].receptor : i \in 1..Len(df)}

RECURSIVE SortKeys(_)
SortKeys(K) ==
    IF K = {} THEN <<>>
    ELSE LET m == CHOOSE x \in K : \A y \in K : StrRank(x) <= StrRank(y)
         IN  <<m>> \o SortKeys(K \ {m})

KiSeries(df) == [i \in 1..Len(df) |-> [idx |-> df[i].idx, val |-> df[i].ki]]

groupby(df) ==
    LET keys == SortKeys(Keys(df))
    IN  [g \in 1..Len(keys) |->
            [key |-> keys[g],
             ki  |-> KiSeries(SelectSeq(df, LAMBDA r : r.receptor = keys[g]))]]

RECURSIVE Concat(_)
Concat(ss) == IF ss = <<>> THEN <<>> ELSE Head(ss) \o Concat(Tail(ss))

(* ki.apply(func): func on each group's Series, the results concatenated. *)
apply(groups, deviation) ==
    Concat([g \in 1..Len(groups) |-> is_outlier(deviation, groups[g].ki)])

(* df[~flags]: the boolean Series is aligned on the index labels. *)
drop_flagged(df, flags) ==
    SelectSeq(df, LAMBDA r :
        \E j \in 1..Len(flags) : flags[j].idx = r.idx /\ ~flags[j].val)

(* The DataFrame of median, mean, std and count, one row per group. *)
aggregate(groups) ==
    [g \in 1..Len(groups) |->
        [receptor |-> groups[g].key,
         median   |-> Median(groups[g].ki),
         mean     |-> Mean(groups[g].ki),
         std      |-> Std(groups[g].ki),
         count    |-> Count(groups[g].ki)]]

(* `if deviation`: None and 0.0 are false. *)
Truthy(deviation) == deviation # None /\ deviation[1] # Int2F(0)

(* get_ki that aggregates the groups made before the outliers were dropped. *)
get_ki_stale(df0, ligand, deviation) ==
    LET df == sort_values(filter(df0, [ligand |-> Scalar(ligand), ki_op |-> Scalar("=")]))
        ki == groupby(df)
        cut == Truthy(deviation) /\ df # <<>>
        df2 == IF cut THEN drop_flagged(df, apply(ki, deviation[1])) ELSE df
    IN  [ki |-> aggregate(ki), sources |-> df2]

(* get_ki that drops outliers only; rows without ki stay. *)
get_ki_keepna(df0, ligand, deviation) ==
    LET df == sort_values(filter(df0, [ligand |-> Scalar(ligand), ki_op |-> Scalar("=")]))
        ki == groupby(df)
        cut == Truthy(deviation) /\ df # <<>>
        df2 == IF cut
               THEN SelectSeq(df, LAMBDA r :
                        r.ki.nan \/ \E j \in 1..Len(apply(ki, deviation[1])) :
                            /\ apply(ki, deviation[1])[j].idx = r.idx
                            /\ ~apply(ki, deviation[1])[j].val)
               ELSE df
    IN  [ki |-> aggregate(groupby(df2)), sources |-> df2]

(* KiDatabase.get_ki, on the rows of self.data. *)
get_ki(df0, ligand, deviation) ==
    LET df == sort_values(filter(df0, [ligand |-> Scalar(ligand), ki_op |-> Scalar("=")]))
        ki == groupby(df)
        cut == Truthy(deviation) /\ df # <<>>
        df2 == IF cut THEN drop_flagged(df, apply(ki, deviation[1])) ELSE df
        ki2 == IF cut THEN groupby(df2) ELSE ki
    IN  [ki |-> aggregate(ki2), sources |-> df2]

(* KiDatabase.values: the distinct values of a column, first occurrence *)
(* first (Series.unique()).                                              *)
RECURSIVE Unique(_)
Unique(s) ==
    IF s = <<>> THEN <<>>
    ELSE LET init == Unique(SubSeq(s, 1, Len(s) - 1))
         IN  IF s[Len(s)] \in Range(init) THEN init ELSE Append(init, s[Len(s)])

values(df, column) == Unique([i \in 1..Len(df) |-> df[i][column]])

-----------------------------------------------------------------------------
(* Objects.  frames holds the DataFrame objects and tables the KiDatabase  *)
(* objects, each under its identity (its position); a KiDatabase refers to *)
(* its DataFrame by identity.  Only what a call returns is kept: the       *)
(* frames it builds on the way are garbage once it has returned.           *)

Frame(cols, rows) == [columns |-> cols, rows |-> rows]

(* from_dataframe(df): a new instance around the frame. *)
from_dataframe(tb, f) == Append(tb, [data |-> f])

(* filter that narrows the receiver's own frame and returns the receiver. *)
filter_heap_inplace(fr, tb, self, kwargs) ==
    IF DOMAIN kwargs = {}
    THEN [frames |-> fr, tables |-> tb, ret |-> self]
    ELSE [frames |-> [fr EXCEPT ![tb[self].data].rows = filter(@, kwargs)],
          tables |-> tb,
          ret    |-> self]

(* KiDatabase.filter on the objects: self when there are no criteria,    *)
(* else a new instance around the new frame that .loc[mask] builds.      *)
filter_heap(fr, tb, self, kwargs) ==
    IF DOMAIN kwargs = {}
    THEN [frames |-> fr, tables |-> tb, ret |-> self]
    ELSE LET df == fr[tb[self].data]
             nf == Frame(df.columns, filter(df.rows, kwargs))
         IN  [frames |-> Append(fr, nf),
              tables |-> from_dataframe(tb, Len(fr) + 1),
              ret    |-> Len(tb) + 1]

StatColumns == {"median", "mean", "std", "count"}

(* get_ki that sorts and cuts the receiver's own frame. *)
get_ki_heap_inplace(fr, tb, self, ligand, deviation) ==
    LET df  == fr[tb[self].data]
        res == get_ki(df.rows, ligand, deviation)
        fr1 == [fr EXCEPT ![tb[self].data].rows = res.sources]
    IN  [frames |-> fr1 \o <<Frame(df.columns, res.sources), Frame(StatColumns, res.ki)>>,
         tables |-> tb,
         ret    |-> [sources |-> Len(fr) + 1, ki |-> Len(fr) + 2]]

(* KiDatabase.get_ki on the objects: filter, sort_values and df[...] each *)
(* build a new frame; the frames of sources and of the statistics are     *)
(* returned.                                                              *)
get_ki_heap(fr, tb, self, ligand, deviation) ==
    LET df  == fr[tb[self].data]
        res == get_ki(df.rows, ligand, deviation)
    IN  [frames |-> fr \o <<Frame(df.columns, res.sources), Frame(StatColumns, res.ki)>>,
         tables |-> tb,
         ret    |-> [sources |-> Len(fr) + 1, ki |-> Len(fr) + 2]]

-----------------------------------------------------------------------------
(* SpecOutlier: is_outlier applied to one group of ki values.  The group   *)
(* is drawn in Init; each step classifies it under one more deviation      *)
(* factor.                                                                 *)

MaxGroup == 4

(* The ki values of the groups: missing, and a few numbers. *)
KiVals == {NaN, Int2F(1), Int2F(2), Int2F(3)}

(* The deviation factors: negative, zero, fractional, and two whole ones. *)
Deviations == {Num(-1, 1), Num(0, 1), Num(1, 2), Num(1, 1), Num(2, 1)}

SeqsUpTo(S, n) == UNION {[1..k -> S] : k \in 0..n}

AsSeries(vals) == [i \in 1..Len(vals) |-> [idx |-> i, val |-> vals[i]]]

IdleOutlier == series = <<>> /\ classified = {}
IdleKi      == data = <<>> /\ result = <<>>
IdleDb      == frames = <<>> /\ tables = <<>> /\ loaded = <<>> /\ ret = <<>>
IdleParams  == args = <<>> /\ response = <<>>

varsOutlier == <<series, classified>>
varsKi      == <<data, result>>
varsDb      == <<frames, tables, loaded, ret>>
varsParams  == <<args, response>>

InitOutlier ==
    /\ series \in {AsSeries(v) : v \in SeqsUpTo(KiVals, MaxGroup)}
    /\ classified = {}
    /\ IdleKi /\ IdleDb /\ IdleParams

Classify(d) ==
    /\ \A c \in classified : c.deviation # d
    /\ classified' =
         classified \cup {[deviation |-> d, flags |-> is_outlier(d, series)]}
    /\ UNCHANGED <<series, varsKi, varsDb, varsParams>>

NextOutlier == \E d \in Deviations : Classify(d)

SpecOutlier == InitOutlier /\ [][NextOutlier]_vars

-----------------------------------------------------------------------------
(* The claims about is_outlier, stated on integers: for a group of n      *)
(* values with sum S and sum of squares SS, mean m = S/n and sample        *)
(* variance s^2 = (n*SS - S^2) / (n*(n-1)); for a factor d = p/q,          *)
(*   v < m - d*s or v > m + d*s   iff   |n*v - S| / n > d*s.               *)

IntOf(x) == x.a[1]

RECURSIVE IntSum(_)
IntSum(s) == IF s = <<>> THEN 0 ELSE IntOf(Head(s).val) + IntSum(Tail(s))

RECURSIVE IntSumSq(_)
IntSumSq(s) ==
    IF s = <<>> THEN 0
    ELSE IntOf(Head(s).val) * IntOf(Head(s).val) + IntSumSq(Tail(s))

(* n * (n - 1) * s^2 *)
ScaledVar(s) == Len(s) * IntSumSq(s) - IntSum(s) * IntSum(s)

(* n * (v - m) *)
ScaledDist(s, v) == Len(s) * v - IntSum(s)

StrictlyOutside(s, v, d) ==
    LET n == Len(s)
        p == d.a[1]
        q == d.a[2]
        A == ScaledDist(s, v)
    IN  IF p < 0 THEN A # 0 \/ ScaledVar(s) > 0
        ELSE A * A * q * q * (n - 1) > p * p * n * ScaledVar(s)

OnBoundary(s, v, d) ==
    LET n == Len(s)
        p == d.a[1]
        q == d.a[2]
        A == ScaledDist(s, v)
    IN  p >= 0 /\ A * A * q * q * (n - 1) = p * p * n * ScaledVar(s)

NumOutliers(flags) == Cardinality({i \in DOMAIN flags : flags[i].val})

-----------------------------------------------------------------------------
(* SpecKi: get_ki on a loaded table.  The table is drawn in Init from the  *)
(* CSV contents below; the step is one call, whose arguments and return    *)
(* value are kept in result.  get_ki reads self.data alone and leaves it   *)
(* as it is, so a behaviour is one call on one table.                      *)

MaxRows == 4

RawRow(r, l, o, k) == [receptor |-> r, ligand |-> l, ki_op |-> o, ki |-> k]

(* The lines a CSV file is made of: measurements of Caffeine on two       *)
(* receptors, with and without a value; a bound ('<'); another ligand; a   *)
(* line without receptor and without ki Note.                              *)
RawRows ==
    {RawRow("A2A", "Caffeine", "=", k) : k \in {NaN, Int2F(1), Int2F(2)}}
    \cup {RawRow("A2B", "Caffeine", "=", Int2F(1)),
          RawRow("A2A", "Caffeine", "<", Int2F(1)),
          RawRow("A2A", "Other", "=", Int2F(2)),
          RawRow(Missing, "Caffeine", Missing, Int2F(2))}

(* The scenario: four measurements of Caffeine on A2A, *)
(* 10.0, 10.5, 11.0 and 100.0.                          *)
ScenarioRows ==
    <<RawRow("A2A", "Caffeine", "=", Int2F(10)),
      RawRow("A2A", "Caffeine", "=", Num(21, 2)),
      RawRow("A2A", "Caffeine", "=", Int2F(11)),
      RawRow("A2A", "Caffeine", "=", Int2F(100))>>

Permutations4 == {p \in [1..4 -> 1..4] : \A i, j \in 1..4 : p[i] = p[j] => i = j}

(* The scenario's rows in any order, alone or among rows of another ligand. *)
ScenarioTables ==
    LET others == {<<>>, <<RawRow("A2A", "Other", "=", Int2F(500))>>,
                         <<RawRow("A2B", "Other", "=", Int2F(10))>>}
    IN  {a \o [i \in 1..4 |-> ScenarioRows[p[i]]] \o b :
            p \in Permutations4, a \in others, b \in others}

Ligands == {"Caffeine", "Other"}

(* deviation: absent, zero, and factors on both sides of zero. *)
KiDeviations == {None, Some(Int2F(0)), Some(Int2F(1)), Some(Int2F(2)), Some(Int2F(-1))}

InitKi ==
    /\ data \in {KiDatabase(raw) : raw \in SeqsUpTo(RawRows, MaxRows) \cup ScenarioTables}
    /\ result = <<>>
    /\ IdleOutlier /\ IdleDb /\ IdleParams

GetKi(ligand, deviation) ==
    /\ result = <<>>
    /\ result' = [op |-> "get_ki", ligand |-> ligand, deviation |-> deviation,
                  ret |-> get_ki(data, ligand, deviation)]
    /\ UNCHANGED <<data, varsOutlier, varsDb, varsParams>>

NextKi == \E l \in Ligands, d \in KiDeviations : GetKi(l, d)

SpecKi == InitKi /\ [][NextKi]_vars

-----------------------------------------------------------------------------
(* The claims about get_ki. *)

Called == result # <<>>

(* The rows of the table that get_ki aggregates: the ligand's, with '='. *)
Matching(ligand) ==
    SelectSeq(data, LAMBDA r : r.ligand = ligand /\ r.ki_op = "=")

RowsOf(df, receptor) == SelectSeq(df, LAMBDA r : r.receptor = receptor)

(* C1: the receptors of statistics are those of sources, and each one's  *)
(* count, mean, median and standard deviation are those of the ki values *)
(* of its rows in sources.                                               *)
C1_SourcesMatchStatistics ==
    Called =>
        LET st  == result.ret.ki
            src == result.ret.sources
        IN  /\ {st[g].receptor : g \in DOMAIN st} = {src[i].receptor : i \in DOMAIN src}
            /\ \A g, h \in DOMAIN st : st[g].receptor = st[h].receptor => g = h
            /\ \A g \in DOMAIN st :
                   LET rows == RowsOf(src, st[g].receptor)
                   IN  /\ st[g].count =
                            Cardinality({i \in DOMAIN rows : ~rows[i].ki.nan})
                       /\ st[g].mean = Mean(KiSeries(rows))
                       /\ st[g].median = Median(KiSeries(rows))
                       /\ st[g].std = Std(KiSeries(rows))

(* A call with a deviation factor dropped a value of a group that is still *)
(* in statistics.                                                          *)
C1_Witness ==
    /\ Called
    /\ Truthy(result.deviation)
    /\ \E g \in DOMAIN result.ret.ki :
           /\ result.ret.ki[g].count >= 2
           /\ \E i \in DOMAIN data :
                  /\ data[i].receptor = result.ret.ki[g].receptor
                  /\ data[i].ligand = result.ligand
                  /\ data[i].ki_op = "="
                  /\ ~data[i].ki.nan
                  /\ \A j \in DOMAIN result.ret.sources :
                         result.ret.sources[j].idx # data[i].idx

(* C2: called with a deviation factor, get_ki keeps the row of a receptor *)
(* group that holds a single ki value, and statistics lists the group     *)
(* with count 1.                                                          *)
C2_SingletonKept ==
    (Called /\ Truthy(result.deviation)) =>
        \A r \in Keys(Matching(result.ligand)) :
            LET rows == RowsOf(Matching(result.ligand), r)
            IN  (Len(rows) = 1 /\ ~rows[1].ki.nan) =>
                  /\ \E j \in DOMAIN result.ret.sources :
                         result.ret.sources[j].idx = rows[1].idx
                  /\ \E g \in DOMAIN result.ret.ki :
                         /\ result.ret.ki[g].receptor = r
                         /\ result.ret.ki[g].count = 1

(* The scenario's table: its rows for Caffeine are four rows of A2A with *)
(* '=' and the values 10.0, 10.5, 11.0 and 100.0.                        *)
IsScenario ==
    LET caf == SelectSeq(data, LAMBDA r : r.ligand = "Caffeine")
    IN  /\ Len(caf) = 4
        /\ \A i \in 1..4 : caf[i].receptor = "A2A" /\ caf[i].ki_op = "="
        /\ {caf[i].ki : i \in 1..4} = {Int2F(10), Num(21, 2), Int2F(11), Int2F(100)}

ScenarioCall ==
    /\ Called
    /\ IsScenario
    /\ result.ligand = "Caffeine"
    /\ result.deviation = Some(Int2F(2))

(* C3 as stated: get_ki("Caffeine", deviation=2) excludes 100.0, leaving *)
(* the group A2A with count 3 and mean 10.5 and three rows in sources.   *)
C3_Original ==
    ScenarioCall =>
        LET st  == result.ret.ki
            src == result.ret.sources
        IN  /\ Len(st) = 1
            /\ st[1].receptor = "A2A"
            /\ st[1].count = 3
            /\ st[1].mean = Num(21, 2)
            /\ Len(src) = 3
            /\ {src[i].ki : i \in DOMAIN src} = {Int2F(10), Num(21, 2), Int2F(11)}

(* C3 amended: with deviation=2 no value of the scenario is an outlier    *)
(* (100.0 lies inside 32.875 -/+ 2 * 44.75...), so statistics has the     *)
(* single group A2A with count 4 and mean 32.875 and sources holds all    *)
(* four rows.                                                             *)
C3_ScenarioKeepsAll ==
    ScenarioCall =>
        LET st  == result.ret.ki
            src == result.ret.sources
        IN  /\ Len(st) = 1
            /\ st[1].receptor = "A2A"
            /\ st[1].count = 4
            /\ st[1].mean = Num(263, 8)
            /\ Len(src) = 4
            /\ {src[i].ki : i \in DOMAIN src}
                 = {Int2F(10), Num(21, 2), Int2F(11), Int2F(100)}

(* The scenario's call has been made, on a table that also holds rows of *)
(* another ligand.                                                       *)
C3_Witness == ScenarioCall /\ Len(data) > 4

(* C10: with a truthy deviation factor and a non-empty filtered row set, *)
(* every row of sources has a ki value; with the factor absent or zero,  *)
(* sources holds every row of the ligand with '=', ki missing or not.    *)
C10_NoMissingKiAfterCut ==
    Called =>
        LET src == result.ret.sources
            m   == Matching(result.ligand)
        IN  /\ (Truthy(result.deviation) /\ m # <<>>) =>
                   \A j \in DOMAIN src : ~src[j].ki.nan
            /\ ~Truthy(result.deviation) =>
                   /\ Len(src) = Len(m)
                   /\ {src[j].idx : j \in DOMAIN src} = {m[i].idx : i \in DOMAIN m}
                   /\ \A j \in DOMAIN src : src[j] \in Range(m)

(* A call with a deviation factor on rows one of which has no ki, and *)
(* that returned other rows of the same receptor.                     *)
C10_Witness ==
    /\ Called
    /\ Truthy(result.deviation)
    /\ \E i \in DOMAIN data :
           /\ data[i].ligand = result.ligand
           /\ data[i].ki_op = "="
           /\ data[i].ki.nan
           /\ \E j \in DOMAIN result.ret.sources :
                  result.ret.sources[j].receptor = data[i].receptor

-----------------------------------------------------------------------------
(* SpecFilter: filter on a loaded table.  The table is drawn in Init; the  *)
(* step is one call with one criteria mapping (the keyword arguments),     *)
(* whose returned rows are kept in result.                                 *)

MaxFilterRows == 3

FilterRawRows ==
    {RawRow(r, l, "=", Int2F(1)) : r \in {"A2A", "A2B", "D2"}, l \in {"Caffeine", "Other"}}

(* The values an entry can hold: a scalar, or a list of none, one or two. *)
ReceptorCriteria ==
    {Scalar("A2A"), Scalar("D2"), List(<<>>), List(<<"A2B">>),
     List(<<"A2A", "A2B">>), List(<<"D2", "A2A">>)}

LigandCriteria == {Scalar("Caffeine"), Scalar("Other"), List(<<"Other", "Caffeine">>)}

KiOpCriteria == {Scalar("="), List(<<"<", ">">>)}

(* The mappings of some of the columns to one of their values. *)
Criteria ==
    LET choice == [receptor |-> ReceptorCriteria, ligand |-> LigandCriteria,
                   ki_op |-> KiOpCriteria]
    IN  UNION {{c \in [ks -> ReceptorCriteria \cup LigandCriteria \cup KiOpCriteria] :
                    \A k \in ks : c[k] \in choice[k]} :
               ks \in SUBSET {"receptor", "ligand", "ki_op"}}

InitFilter ==
    /\ data \in {KiDatabase(raw) : raw \in SeqsUpTo(FilterRawRows, MaxFilterRows)}
    /\ result = <<>>
    /\ IdleOutlier /\ IdleDb /\ IdleParams

Filter(kwargs) ==
    /\ result = <<>>
    /\ result' = [op |-> "filter", kwargs |-> kwargs, ret |-> filter(data, kwargs)]
    /\ UNCHANGED <<data, varsOutlier, varsDb, varsParams>>

NextFilter == \E c \in Criteria : Filter(c)

SpecFilter == InitFilter /\ [][NextFilter]_vars

(* The values an entry allows: a scalar counts as the set of itself. *)
Allowed(v) == IF "list" \in DOMAIN v THEN Range(v.list) ELSE {v.scalar}

Satisfies(row, criteria) == \A k \in DOMAIN criteria : row[k] \in Allowed(criteria[k])

IsSubset(a, b) == Range(a) \subseteq Range(b)

(* C5: filter returns exactly the rows whose value in every entry's field *)
(* is one of the entry's values, in the table's order; so dropping an     *)
(* entry can only grow the result, a list gives the union of what its     *)
(* values give, and empty criteria give every row.                        *)
C5_FilterIsMembership ==
    Called =>
        LET c == result.kwargs
        IN  /\ result.ret = SelectSeq(data, LAMBDA r : Satisfies(r, c))
            /\ \A k \in DOMAIN c :
                   IsSubset(result.ret,
                            filter(data, [j \in DOMAIN c \ {k} |-> c[j]]))
            /\ \A k \in DOMAIN c :
                   Range(result.ret) =
                       UNION {Range(filter(data, [c EXCEPT ![k] = Scalar(x)])) :
                                  x \in Allowed(c[k])}
            /\ DOMAIN c = {} => result.ret = data

(* A call with two entries, one of them a list of two values both of *)
(* which occur, that kept some rows and dropped others.              *)
C5_Witness ==
    /\ Called
    /\ Cardinality(DOMAIN result.kwargs) >= 2
    /\ \E k \in DOMAIN result.kwargs :
           /\ Cardinality(Allowed(result.kwargs[k])) = 2
           /\ \A x \in Allowed(result.kwargs[k]) :
                  \E i \in DOMAIN result.ret : result.ret[i][k] = x
    /\ Len(result.ret) < Len(data)

-----------------------------------------------------------------------------
(* Spec: the KiDatabase objects of a process.  Table 1 is the loaded      *)
(* database (app.ctx.db); filter, values and get_ki are called in any     *)
(* order on any table that exists.  No handler awaits, so each call is    *)
(* one step.                                                              *)

MaxFrames == 4

db == 1

(* The CSV contents the database is loaded from: receptors out of order, *)
(* a bound, a second ligand, a missing ki.                                *)
DbSources ==
    {<<RawRow("A2B", "Caffeine", "=", Int2F(2)), RawRow("A2A", "Caffeine", "=", Int2F(1))>>,
     <<RawRow("A2B", "Caffeine", "=", Int2F(1)), RawRow("A2A", "Other", "<", Int2F(3)),
       RawRow("A2A", "Caffeine", Missing, NaN)>>,
     <<RawRow("D2", "Caffeine", "=", Int2F(3)), RawRow("A2A", "Caffeine", "=", Int2F(1)),
       RawRow("A2A", "Caffeine", "=", Int2F(1)), RawRow("A2A", "Caffeine", "=", Int2F(2))>>}

DbCriteria ==
    {<<>>, [ligand |-> Scalar("Caffeine")],
     [receptor |-> List(<<"A2A", "D2">>), ki_op |-> Scalar("=")]}

Init ==
    /\ \E raw \in DbSources :
           /\ frames = <<Frame(columns, KiDatabase(raw))>>
           /\ loaded = Frame(columns, KiDatabase(raw))
    /\ tables = <<[data |-> 1]>>
    /\ ret = <<>>
    /\ IdleOutlier /\ IdleKi /\ IdleParams

FilterCall(self, kwargs) ==
    LET h == filter_heap(frames, tables, self, kwargs)
    IN  /\ Len(h.frames) <= MaxFrames
        /\ frames' = h.frames
        /\ tables' = h.tables
        /\ ret' = [op |-> "filter", self |-> self, ret |-> h.ret]
        /\ UNCHANGED <<loaded, varsOutlier, varsKi, varsParams>>

ValuesCall(self, column) ==
    /\ ret' = [op |-> "values", self |-> self,
               ret |-> values(frames[tables[self].data].rows, column)]
    /\ UNCHANGED <<frames, tables, loaded, varsOutlier, varsKi, varsParams>>

GetKiCall(self, ligand, deviation) ==
    LET h == get_ki_heap(frames, tables, self, ligand, deviation)
    IN  /\ Len(h.frames) <= MaxFrames
        /\ frames' = h.frames
        /\ tables' = h.tables
        /\ ret' = [op |-> "get_ki", self |-> self, ret |-> h.ret]
        /\ UNCHANGED <<loaded, varsOutlier, varsKi, varsParams>>

Next ==
    \/ \E self \in DOMAIN tables, kwargs \in DbCriteria : FilterCall(self, kwargs)
    \/ \E self \in DOMAIN tables, column \in {"receptor", "ligand"} :
           ValuesCall(self, column)
    \/ \E self \in DOMAIN tables, deviation \in {None, Some(Int2F(1))} :
           GetKiCall(self, "Caffeine", deviation)

Spec == Init /\ [][Next]_vars

(* C7: the table filter returns is never the receiver, and never shares *)
(* the receiver's frame.                                                *)
C7_FilterReturnsNewTable ==
    (ret # <<>> /\ ret.op = "filter") =>
        /\ ret.ret # ret.self
        /\ tables[ret.ret].data # tables[ret.self].data

(* C8: whatever has been called, the loaded table still refers to its   *)
(* frame, and the frame's rows, their order and its columns are those   *)
(* it had after loading.                                                *)
C8_SourceTableUnchanged ==
    /\ tables[db].data = 1
    /\ frames[1] = loaded

(* filter, get_ki and values have all been called, get_ki on the loaded *)
(* table with a deviation factor that made it drop rows.                *)
C8_Witness ==
    /\ ret # <<>>
    /\ ret.op = "values"
    /\ Len(tables) >= 2
    /\ \E f \in DOMAIN frames :
           /\ frames[f].columns = columns
           /\ frames[f].rows # <<>>
           /\ \E g \in DOMAIN frames :
                  /\ frames[g].columns = StatColumns
                  /\ g = f + 1
           /\ Len(frames[f].rows) < Len(SelectSeq(loaded.rows,
                  LAMBDA r : r.ligand = "Caffeine" /\ r.ki_op = "="))

-----------------------------------------------------------------------------
(* The query layer (src/kidb/app.py).  A string that is parsed is a       *)
(* sequence of characters; the characters are two digits, the point, the  *)
(* sign, the percent sign and a letter, and the two control characters    *)
(* that percent-decoding can make of them.                                *)

Digits == {"0", "3"}
Chars  == Digits \cup {".", "-", "%", "x"}

DigitVal(c) == IF c = "3" THEN 3 ELSE 0

(* chr(int(h1 + h2, 16)) for the hex digits at hand. *)
Chr(h1, h2) ==
    CASE h1 = "3" /\ h2 = "0" -> "0"
      [] h1 = "3" /\ h2 = "3" -> "3"
      [] h1 = "0" /\ h2 = "0" -> "NUL"
      [] h1 = "0" /\ h2 = "3" -> "ETX"

(* urllib.parse.unquote: %xx escapes become the character, anything else *)
(* stays.                                                                *)
RECURSIVE unquote(_)
unquote(s) ==
    IF s = <<>> THEN <<>>
    ELSE IF s[1] = "%" /\ Len(s) >= 3 /\ s[2] \in Digits /\ s[3] \in Digits
         THEN <<Chr(s[2], s[3])>> \o unquote(SubSeq(s, 4, Len(s)))
         ELSE <<s[1]>> \o unquote(Tail(s))

AllDigits(s) == \A i \in DOMAIN s : s[i] \in Digits

RECURSIVE DecimalVal(_)
DecimalVal(s) ==
    IF s = <<>> THEN 0 ELSE 10 * DecimalVal(SubSeq(s, 1, Len(s) - 1)) + DigitVal(s[Len(s)])

RECURSIVE Pow10(_)
Pow10(k) == IF k = 0 THEN 1 ELSE 10 * Pow10(k - 1)

Unsigned(s) == IF s # <<>> /\ s[1] = "-" THEN Tail(s) ELSE s
Sign(s)     == IF s # <<>> /\ s[1] = "-" THEN -1 ELSE 1

(* int(s): an optional sign and at least one digit, else ValueError. *)
IntValid(s) == Unsigned(s) # <<>> /\ AllDigits(Unsigned(s))
IntValue(s) == Sign(s) * DecimalVal(Unsigned(s))

(* float(s): an optional sign, digits with at most one point among them, *)
(* at least one digit, else ValueError.                                  *)
PointAt(s) == {i \in DOMAIN s : s[i] = "."}

FloatValid(s) ==
    LET u == Unsigned(s)
    IN  /\ \A i \in DOMAIN u : u[i] \in Digits \cup {"."}
        /\ Cardinality(PointAt(u)) <= 1
        /\ \E i \in DOMAIN u : u[i] \in Digits

FloatValue(s) ==
    LET u == Unsigned(s)
        d == SelectSeq(u, LAMBDA c : c # ".")
        k == IF PointAt(u) = {} THEN 0 ELSE Len(u) - (CHOOSE i \in PointAt(u) : TRUE)
    IN  Num(Sign(s) * DecimalVal(d), Pow10(k))

(* type_(text): the value, or ValueError raised. *)
Convert(type_, text) ==
    IF type_ = "int"
    THEN IF IntValid(text) THEN [raised |-> FALSE, value |-> IntValue(text)]
         ELSE [raised |-> TRUE, value |-> 0]
    ELSE IF FloatValid(text) THEN [raised |-> FALSE, value |-> Some(FloatValue(text))]
         ELSE [raised |-> TRUE, value |-> None]

(* request.args.get(param): the parameter's first value, or None. *)
ArgsGet(a, param) == IF param \in DOMAIN a THEN Some(a[param]) ELSE None

(* get_from_params: suppress(ValueError) covers request.args.get alone; *)
(* the conversion in the return statement is outside of it.              *)
get_from_params(a, param, type_, default) ==
    LET value == ArgsGet(a, param)
    IN  IF value = None THEN [raised |-> FALSE, value |-> default]
        ELSE Convert(type_, unquote(value[1]))

(* extract_filters: the request's parameters that name a column, each *)
(* with its list of values.                                            *)
extract_filters(a) ==
    [k \in DOMAIN a \cap columns |-> List(<<a[k]>>)]

(* len(x) of a ligand name. *)
StrLen(x) == Len(x)

(* app.ctx.db: the table the handlers read.  A ligand's name is a  *)
(* sequence of characters, as it is compared with request strings. *)
AppDb ==
    KiDatabase(<<RawRow("A2A", <<"x">>, "=", Int2F(1)),
                 RawRow("A2A", <<"x">>, "=", Int2F(1)),
                 RawRow("A2A", <<"x">>, "=", Int2F(3)),
                 RawRow("A2B", <<"x", "3">>, "=", Int2F(2)),
                 RawRow("A2B", <<"3", "-", "x">>, "<", Int2F(2))>>)

-----------------------------------------------------------------------------
(* SpecParams: one request, its query string drawn in Init, answered by *)
(* one of the handlers.  An exception that leaves a handler is answered *)
(* with status 500.  Every response carries the header that allow_cors  *)
(* sets.  The body is the value handed to json(); in it a missing       *)
(* number is NaN, which fillna('NaN') turns into the string.            *)

MaxValueLen == 3

QueryValues == UNION {[1..k -> Chars] : k \in 1..MaxValueLen}

InitParams ==
    /\ args \in {<<>>} \cup
                {[p \in {q} |-> v] : q \in {"max-len", "deviation", "ligand"},
                                      v \in QueryValues}
    /\ response = <<>>
    /\ IdleOutlier /\ IdleKi /\ IdleDb

ServerError(handler, param) ==
    [handler |-> handler, status |-> 500, param |-> param, body |-> <<>>,
     allow_origin |-> "*"]

ligands ==
    /\ response = <<>>
    /\ LET max_len == get_from_params(args, "max-len", "int", -1)
       IN  response' =
             IF max_len.raised THEN ServerError("ligands", "max-len")
             ELSE [handler |-> "ligands", status |-> 200, param |-> "max-len",
                   allow_origin |-> "*", decoded |-> max_len.value,
                   body |-> SelectSeq(values(filter(AppDb, extract_filters(args)), "ligand"),
                                LAMBDA x : StrLen(x) <= max_len.value \/ max_len.value <= 0)]
    /\ UNCHANGED <<args, varsOutlier, varsKi, varsDb>>

receptors ==
    /\ response = <<>>
    /\ response' = [handler |-> "receptors", status |-> 200, param |-> "",
                    allow_origin |-> "*",
                    body |-> values(filter(AppDb, extract_filters(args)), "receptor")]
    /\ UNCHANGED <<args, varsOutlier, varsKi, varsDb>>

ki(ligand) ==
    /\ response = <<>>
    /\ LET deviation == get_from_params(args, "deviation", "float", None)
       IN  response' =
             IF deviation.raised THEN ServerError("ki", "deviation")
             ELSE [handler |-> "ki", status |-> 200, param |-> "deviation",
                   allow_origin |-> "*", decoded |-> deviation.value,
                   body |-> get_ki(filter(AppDb, extract_filters(args)),
                                   unquote(ligand), deviation.value)]
    /\ UNCHANGED <<args, varsOutlier, varsKi, varsDb>>

NextParams ==
    \/ ligands
    \/ receptors
    \/ \E ligand \in {<<"x">>, <<"x", "%", "3", "3">>} : ki(ligand)

SpecParams == InitParams /\ [][NextParams]_vars

(* C9: decoding 'max-len' and 'deviation' gives the default when the     *)
(* parameter is absent and when its value is malformed, and never ends   *)
(* in an error.                                                          *)
C9_MalformedGivesDefault ==
    (response # <<>> /\ response.handler \in {"ligands", "ki"}) =>
        LET given  == response.param \in DOMAIN args
            type_  == IF response.handler = "ligands" THEN "int" ELSE "float"
            wrong  == given /\ Convert(type_, unquote(args[response.param])).raised
        IN  /\ response.status = 200
            /\ (~given \/ wrong) =>
                   response.decoded = (IF response.handler = "ligands" THEN -1 ELSE None)

=============================================================================
